---- MODULE Spec2Model ----
(***************************************************************************)
(* A model of scrape_support.py: the crawl of the support site             *)
(* (guides page -> categories -> listing pages -> articles -> anchors)     *)
(* and the manifest it builds.                                             *)
(*                                                                         *)
(* The web is the environment: every HTTP request either fails (get()      *)
(* raises) or returns a document drawn from a bounded set of documents.    *)
(* Documents are modelled by what the selectors of the code read in them:  *)
(* the anchors of a listing page with the structure each sits in, the      *)
(* headings of an article with their level, id and text.                   *)
(*                                                                         *)
(* A URL string is a record: the text up to and including "/support/"      *)
(* (root), the path segments after it, whether it ends in "/", whether it  *)
(* carries a "?query", and its "#fragment" ("" when it has none).          *)
(***************************************************************************)
EXTENDS Integers, Sequences, FiniteSets, TLC

VARIABLES
    entry,          \* which function was invoked: "main", "extract_pages", "extract_anchors"
    pc,             \* position in the code
    delayed,        \* time.sleep(SLEEP) has run since the last HTTP request
    guides_failed,  \* the request for GUIDES raised
    failed_cats,    \* categories for which a request in the try body raised
    failed_arts,    \* <<category, article>> pairs whose article request raised
    cats,           \* build_manifest: the list extract_categories() returned
    ci,             \* build_manifest: index of cat_url in cats
    section_title,  \* build_manifest: section_title
    sections,       \* build_manifest: sections
    page_urls,      \* build_manifest: page_urls
    pi,             \* build_manifest: index of p in page_urls
    bm_pages,       \* build_manifest: pages
    manifest,       \* what build_manifest returned (<<>> = nothing yet)
    file,           \* support-links.json (<<>> = never opened)
    category_url,   \* extract_pages: category_url
    pages,          \* extract_pages: pages
    seen_pages,     \* extract_pages: seen_pages
    seen_paginate,  \* extract_pages: seen_paginate
    next_url,       \* extract_pages: next_url (<<>> = None)
    soup,           \* extract_pages: soup, the listing page parsed last (<<>> = none yet)
    found_any,      \* extract_pages: found_any
    from_page,      \* the hrefs the last loop iteration appended to pages
    ep_fetched,     \* the URLs requested by the running extract_pages call, in order
    hub_links,      \* the subcategory links on the first page that call was served
    article_url,    \* extract_anchors: article_url
    article_resp,   \* extract_anchors harness: the response to the article request
    ea_result       \* extract_anchors harness: the returned (anchors, title) (<<>> = not yet)

vars == <<entry, pc, delayed, guides_failed, failed_cats, failed_arts,
          cats, ci, section_title, sections, page_urls, pi, bm_pages, manifest,
          file, category_url, pages, seen_pages, seen_paginate, next_url, soup,
          found_any, from_page, ep_fetched, hub_links, article_url, article_resp,
          ea_result>>

(***************************************************************************)
(* Bounds of the model.                                                    *)
(***************************************************************************)
MaxGuideLinks == 2      \* anchors on the guides page
MaxLinks == 2           \* anchors on a listing page
MaxHeadings == 2        \* heading elements in an article
MaxFetches == 6         \* requests one extract_pages call may issue in the model

(***************************************************************************)
(* URLs                                                                    *)
(***************************************************************************)
WP == "https://wordpress.com/support/"
OFFSITE == "https://example.org/support/"

Url(r, p, s, q, f) == [root |-> r, path |-> p, slash |-> s, query |-> q, frag |-> f]

ROOT == Url(WP, <<>>, FALSE, FALSE, "")
GUIDES == Url(WP, <<"guides">>, TRUE, FALSE, "")

\* href.split("#")[0]
StripFragment(u) == [u EXCEPT !.frag = ""]

\* CATEGORY_RE = ^https://wordpress\.com/support/category/[^/?#]+/?$
CATEGORY_RE(u) ==
    /\ u.root = WP
    /\ Len(u.path) = 2
    /\ u.path[1] = "category"
    /\ ~u.query
    /\ u.frag = ""

\* The alternatives of the negative lookahead of ARTICLE_RE that end in "/".
SlashReserved == {"category", "tag", "author", "type", "page", "embed", "amp"}
\* The path segments of the model that begin with "wp-json" or with "search".
BareReserved == {"wp-json", "search", "search-tips"}

\* (?!category/|tag/|author/|type/|page/|wp-json|search|embed/|amp/)
ReservedPrefix(u) ==
    /\ Len(u.path) >= 1
    /\ \/ u.path[1] \in SlashReserved /\ (Len(u.path) >= 2 \/ u.slash)
       \/ u.path[1] \in BareReserved

\* ARTICLE_RE with "[^#]+" for "[^?#]+": a query string passes.
ARTICLE_RE_query(u) ==
    /\ u.root = WP
    /\ Len(u.path) >= 1
    /\ ~ReservedPrefix(u)
    /\ u.frag = ""

\* ARTICLE_RE = ^https://wordpress\.com/support/(?!...)[^?#]+/?$
ARTICLE_RE(u) ==
    /\ u.root = WP
    /\ Len(u.path) >= 1
    /\ ~ReservedPrefix(u)
    /\ ~u.query
    /\ u.frag = ""

\* a[href*="/support/category/"]
HrefHasSupportCategory(u) ==
    /\ Len(u.path) >= 1
    /\ u.path[1] = "category"
    /\ (Len(u.path) >= 2 \/ u.slash)

\* str.title() of the slug with "-" replaced by " ", for the slugs of the model.
TitleCase(seg) ==
    CASE seg = "design" -> "Design"
      [] seg = "media" -> "Media"
      [] seg = "themes" -> "Themes"
      [] seg = "themes-overview" -> "Themes Overview"
      [] seg = "install-plugin" -> "Install Plugin"
      [] seg = "category" -> "Category"
      [] seg = "2" -> "2"
      [] OTHER -> "?"

\* slug_to_title: url.rstrip("/").split("/")[-1] ...
slug_to_title(u) ==
    IF Len(u.path) = 0 THEN "Support" ELSE TitleCase(u.path[Len(u.path)])

(***************************************************************************)
(* Sequence helpers                                                        *)
(***************************************************************************)
Range(s) == {s[i] : i \in 1..Len(s)}

SeqsUpTo(S, n) == UNION {[1..k -> S] : k \in 0..n}

\* "de-dup keep order": out, seen = [], set(); for u in links: ...
RECURSIVE DedupFrom(_, _)
DedupFrom(s, seen) ==
    IF s = <<>> THEN <<>>
    ELSE IF Head(s) \in seen THEN DedupFrom(Tail(s), seen)
    ELSE <<Head(s)>> \o DedupFrom(Tail(s), seen \cup {Head(s)})

Dedup(s) == DedupFrom(s, {})

IsInjective(s) == \A i, j \in 1..Len(s) : s[i] = s[j] => i = j

(***************************************************************************)
(* Documents                                                               *)
(***************************************************************************)
\* An <a href> element: its href, the structure it sits in (where), how it is
\* marked when it is a pagination link (nav), and whether it lies inside the
\* element that matches "main, #primary, .site-main" (main).
Anchor(h, w, n, m) == [href |-> h, where |-> w, nav |-> n, main |-> m]

\* A heading element of an article: h<level>, with or without an id attribute.
Heading(l, hasid, i, t) == [level |-> l, has_id |-> hasid, id |-> i, text |-> t]

\* An HTML document, as the extractors read it: title is the text of the
\* <title> element ("" when absent or empty), headings the h1..h6 elements in
\* document order, links the <a href> elements in document order, has_main
\* whether an element matches "main, #primary, .site-main".
Doc(t, hs, ls, m) == [title |-> t, headings |-> hs, links |-> ls, has_main |-> m]

RECURSIVE FirstText(_, _)
\* soup.find(tag) for tag h<l>: the text of the first such element, "" if none.
FirstText(hs, l) ==
    IF hs = <<>> THEN ""
    ELSE IF Head(hs).level = l THEN Head(hs).text
    ELSE FirstText(Tail(hs), l)

\* extract_title_from_soup
extract_title_from_soup(doc) ==
    IF FirstText(doc.headings, 1) # "" THEN FirstText(doc.headings, 1)
    ELSE IF FirstText(doc.headings, 2) # "" THEN FirstText(doc.headings, 2)
    ELSE doc.title

\* f"#{aid}", for the ids of the model.
HashId(aid) ==
    CASE aid = "install" -> "#install"
      [] aid = "setup" -> "#setup"
      [] OTHER -> "#"

\* soup.select("h2[id], h3[id], h4[id]")
HeadingSelected(h) == h.level \in 2..4 /\ h.has_id

RECURSIVE CollectAnchors(_, _)
\* the loop over the selected headings: anchors.append(...) unless "not aid"
CollectAnchors(hs, url) ==
    IF hs = <<>> THEN <<>>
    ELSE IF HeadingSelected(Head(hs)) /\ Head(hs).id # ""
         THEN <<[title |-> IF Head(hs).text # "" THEN Head(hs).text
                           ELSE HashId(Head(hs).id),
                 url |-> [url EXCEPT !.frag = Head(hs).id]]>>
              \o CollectAnchors(Tail(hs), url)
         ELSE CollectAnchors(Tail(hs), url)

RECURSIVE DedupByUrlFrom(_, _)
\* "de-dup by URL"
DedupByUrlFrom(as, seen) ==
    IF as = <<>> THEN <<>>
    ELSE IF Head(as).url \in seen THEN DedupByUrlFrom(Tail(as), seen)
    ELSE <<Head(as)>> \o DedupByUrlFrom(Tail(as), seen \cup {Head(as).url})

DedupByUrl_keepall(as) == as

DedupByUrl(as) == DedupByUrlFrom(as, {})

\* A response to an HTTP request: get() raised (ok = FALSE) or returned a document.
Failed == [ok |-> FALSE]
Served(doc) == [ok |-> TRUE, doc |-> doc]

\* The except branch re-raising: the exception of get() leaves extract_anchors.
OnArticleFetchError_raise(url) == [raised |-> TRUE]

\* lines 154-156: except Exception: return [], slug_to_title(article_url)
OnArticleFetchError(url) ==
    [raised |-> FALSE, anchors |-> <<>>, title |-> slug_to_title(url)]

\* extract_anchors(article_url), given the response to get(article_url)
extract_anchors(url, resp) ==
    IF ~resp.ok THEN OnArticleFetchError(url)
    ELSE [raised |-> FALSE,
          anchors |-> DedupByUrl(CollectAnchors(resp.doc.headings, url)),
          title |-> IF extract_title_from_soup(resp.doc) # ""
                    THEN extract_title_from_soup(resp.doc)
                    ELSE slug_to_title(url)]

(***************************************************************************)
(* extract_categories, after the request                                   *)
(***************************************************************************)
\* scope = soup.select_one("main, #primary, .site-main") or soup
Scope(doc) ==
    IF doc.has_main THEN SelectSeq(doc.links, LAMBDA a : a.main) ELSE doc.links

RECURSIVE CategoryLinks(_)
\* lines 82-91: the hrefs of scope.select('a[href*="/support/category/"]'),
\* cut at "#", that match CATEGORY_RE
CategoryLinks(as) ==
    IF as = <<>> THEN <<>>
    ELSE IF /\ HrefHasSupportCategory(Head(as).href)
            /\ CATEGORY_RE(StripFragment(Head(as).href))
         THEN <<StripFragment(Head(as).href)>> \o CategoryLinks(Tail(as))
         ELSE CategoryLinks(Tail(as))

\* extract_categories with the exception of get(GUIDES) swallowed.
extract_categories_swallow(resp) ==
    IF ~resp.ok THEN [raised |-> FALSE, value |-> <<>>]
    ELSE [raised |-> FALSE, value |-> Dedup(CategoryLinks(Scope(resp.doc)))]

\* extract_categories(), given the response to get(GUIDES): nothing catches
\* what get() raises
extract_categories(resp) ==
    IF ~resp.ok THEN [raised |-> TRUE]
    ELSE [raised |-> FALSE, value |-> Dedup(CategoryLinks(Scope(resp.doc)))]

(***************************************************************************)
(* extract_pages: one listing page                                         *)
(***************************************************************************)
\* The three entries of selectors, by the structure an anchor sits in:
\* ".entry-title a[href]", "article .entry-title a[href]",
\* ".card a[href][rel!=category]"
SelectorMatches(k, a) ==
    CASE k = 1 -> a.where \in {"entry-title", "article-entry-title"}
      [] k = 2 -> a.where = "article-entry-title"
      [] k = 3 -> a.where = "card"

RECURSIVE Scan(_, _)
\* the body of "for a in soup.select(sel)" (lines 123-128, 131-135)
Scan(as, acc) ==
    IF as = <<>> THEN acc
    ELSE LET href == StripFragment(Head(as).href)
         IN IF ARTICLE_RE(href) /\ href \notin acc.seen_pages
            THEN Scan(Tail(as), [pages |-> Append(acc.pages, href),
                                 seen_pages |-> acc.seen_pages \cup {href},
                                 found_any |-> TRUE])
            ELSE Scan(Tail(as), acc)

\* lines 121-128: "for sel in selectors: for a in soup.select(sel): ..."
Tier1(doc, ps, seen) ==
    LET start == [pages |-> ps, seen_pages |-> seen, found_any |-> FALSE]
        s1 == Scan(SelectSeq(doc.links, LAMBDA a : SelectorMatches(1, a)), start)
        s2 == Scan(SelectSeq(doc.links, LAMBDA a : SelectorMatches(2, a)), s1)
    IN Scan(SelectSeq(doc.links, LAMBDA a : SelectorMatches(3, a)), s2)

\* lines 121-135: Tier 1, then the scan of soup.select("a[href]") if not found_any
ScanListing(doc, ps, seen) ==
    LET t1 == Tier1(doc, ps, seen)
    IN IF t1.found_any THEN t1
       ELSE [Scan(doc.links, t1) EXCEPT !.found_any = FALSE]

RECURSIVE FirstNav(_, _)
\* soup.select_one(...) for a pagination marking: the first such anchor, if any
FirstNav(as, nav) ==
    IF as = <<>> THEN <<>>
    ELSE IF Head(as).nav = nav THEN <<Head(as).href>>
    ELSE FirstNav(Tail(as), nav)

\* NextLink taking the first link to a category page for the next page.
NextLink_anycategorylink(doc) ==
    LET cs == SelectSeq(doc.links, LAMBDA a : HrefHasSupportCategory(a.href))
    IN IF cs = <<>> THEN <<>> ELSE <<cs[1].href>>

\* lines 138-143: a[rel="next"], or else a.next (".pagination a.next,
\* .nav-links a.next" selects nothing that "a.next" does not)
NextLink(doc) ==
    IF FirstNav(doc.links, "rel-next") # <<>> THEN FirstNav(doc.links, "rel-next")
    ELSE FirstNav(doc.links, "class-next")

\* the href "": falsy in "while next_url and ..."
EmptyHref == Url("", <<>>, FALSE, FALSE, "")

\* the loop condition with the seen_paginate test left out
LoopCondition_nocheck(nxt, seen) == nxt # <<>> /\ nxt[1] # EmptyHref

\* line 110: while next_url and next_url not in seen_paginate
LoopCondition(nxt, seen) ==
    /\ nxt # <<>>
    /\ nxt[1] # EmptyHref
    /\ nxt[1] \notin seen

(***************************************************************************)
(* The web: the URLs and the documents the requests of the model return    *)
(***************************************************************************)
CatDesign == Url(WP, <<"category", "design">>, TRUE, FALSE, "")
CatMedia == Url(WP, <<"category", "media">>, FALSE, FALSE, "")
SubThemes == Url(WP, <<"category", "design", "themes">>, TRUE, FALSE, "")
Page2 == Url(WP, <<"category", "design", "page", "2">>, TRUE, FALSE, "")
ArtThemes == Url(WP, <<"themes-overview">>, TRUE, FALSE, "")
ArtPlugin == Url(WP, <<"install-plugin">>, TRUE, FALSE, "")
ArtQuery == Url(WP, <<"install-plugin">>, TRUE, TRUE, "")
TagFoo == Url(WP, <<"tag", "foo">>, TRUE, FALSE, "")
SearchTips == Url(WP, <<"search-tips">>, TRUE, FALSE, "")
OffArticle == Url(OFFSITE, <<"themes-overview">>, TRUE, FALSE, "")
OffCategory == Url(OFFSITE, <<"category", "design">>, TRUE, FALSE, "")

\* The <a href> elements a guides page is made of.
GuideAnchors ==
    { Anchor(CatDesign, "plain", "", TRUE),
      Anchor(CatMedia, "plain", "", TRUE),
      Anchor([CatDesign EXCEPT !.frag = "top"], "plain", "", FALSE),
      Anchor(CatMedia, "plain", "", FALSE),
      Anchor(SubThemes, "plain", "", TRUE),
      Anchor(OffCategory, "plain", "", TRUE),
      Anchor([CatMedia EXCEPT !.query = TRUE], "plain", "", TRUE),
      Anchor(ArtThemes, "plain", "", TRUE) }

\* A document has an anchor inside its main region only if it has such a region.
WellFormed(doc) == doc.has_main \/ \A i \in 1..Len(doc.links) : ~doc.links[i].main

GuidesDocs ==
    { d \in { Doc("Guides", <<>>, ls, m) :
                ls \in SeqsUpTo(GuideAnchors, MaxGuideLinks), m \in BOOLEAN } :
      WellFormed(d) }

\* The <a href> elements a listing page is made of.
ListingAnchors ==
    { Anchor(ArtThemes, "entry-title", "", TRUE),
      Anchor(ArtPlugin, "entry-title", "", TRUE),
      Anchor(ArtPlugin, "article-entry-title", "", TRUE),
      Anchor(ArtThemes, "card", "", TRUE),
      Anchor(ArtPlugin, "plain", "", TRUE),
      Anchor([ArtPlugin EXCEPT !.frag = "setup"], "card", "", TRUE),
      Anchor(ArtThemes, "card-rel-category", "", TRUE),
      Anchor(ArtQuery, "entry-title", "", TRUE),
      Anchor(TagFoo, "card", "", TRUE),
      Anchor(SearchTips, "plain", "", TRUE),
      Anchor(OffArticle, "entry-title", "", TRUE),
      Anchor(SubThemes, "plain", "", TRUE),
      Anchor(Page2, "plain", "rel-next", TRUE),
      Anchor(CatDesign, "plain", "class-next", TRUE),
      Anchor(EmptyHref, "plain", "rel-next", TRUE) }

ListingDocs ==
    { Doc("", <<>>, ls, TRUE) : ls \in SeqsUpTo(ListingAnchors, MaxLinks) }

\* The whole script is served listing pages made of fewer kinds of anchors.
CrawlListingAnchors ==
    { Anchor(ArtThemes, "entry-title", "", TRUE),
      Anchor(ArtPlugin, "card", "", TRUE),
      Anchor(ArtPlugin, "plain", "", TRUE),
      Anchor(ArtQuery, "entry-title", "", TRUE),
      Anchor(TagFoo, "card", "", TRUE),
      Anchor(OffArticle, "plain", "", TRUE),
      Anchor(SubThemes, "plain", "", TRUE),
      Anchor(Page2, "plain", "rel-next", TRUE) }

CrawlListingDocs ==
    { d \in ListingDocs : Range(d.links) \subseteq CrawlListingAnchors }

\* The category page as line 187 reads it: only its title matters there.
CategoryDocs ==
    { Doc("", <<>>, <<>>, TRUE),
      Doc("", <<Heading(1, FALSE, "", "Design guides")>>, <<>>, TRUE) }

\* The heading elements an article is made of.
Headings ==
    { Heading(1, FALSE, "", "Install"),
      Heading(1, TRUE, "install", ""),
      Heading(2, TRUE, "install", "Install the plugin"),
      Heading(2, TRUE, "install", ""),
      Heading(2, FALSE, "", "Overview"),
      Heading(3, TRUE, "install", "Again"),
      Heading(3, TRUE, "setup", "Set up"),
      Heading(3, FALSE, "", "No id"),
      Heading(4, TRUE, "setup", ""),
      Heading(4, TRUE, "", "Empty id"),
      Heading(5, TRUE, "setup", "Too deep") }

ArticleDocs ==
    { Doc(t, hs, <<>>, TRUE) :
        t \in {"", "Support"}, hs \in SeqsUpTo(Headings, MaxHeadings) }

\* The articles the crawl is served.
CrawlArticleDocs ==
    { Doc("Support", <<>>, <<>>, TRUE),
      Doc("", <<Heading(2, TRUE, "install", "Install the plugin"),
                Heading(3, FALSE, "", "No id")>>, <<>>, TRUE) }

Responses(docs) == {Failed} \cup {Served(d) : d \in docs}

\* What a request for the guides page, a category page (line 187), a listing
\* page and an article may return.
GuidesResponses == Responses(GuidesDocs)
CategoryResponses == Responses(CategoryDocs)
ListingResponses == Responses(ListingDocs)
CrawlListingResponses == Responses(CrawlListingDocs)
ArticleResponses == Responses(ArticleDocs)
CrawlArticleResponses == Responses(CrawlArticleDocs)

\* The responses to a request for a listing page, by the function invoked.
ServedListings(e) == IF e = "main" THEN CrawlListingResponses ELSE ListingResponses

(***************************************************************************)
(* Initial states                                                          *)
(***************************************************************************)
\* Nothing has run: the values of the variables before their first assignment.
Blank ==
    /\ delayed = FALSE
    /\ guides_failed = FALSE
    /\ failed_cats = {}
    /\ failed_arts = {}
    /\ cats = <<>>
    /\ ci = 1
    /\ section_title = ""
    /\ sections = <<>>
    /\ page_urls = <<>>
    /\ pi = 1
    /\ bm_pages = <<>>
    /\ manifest = <<>>
    /\ file = <<>>
    /\ pages = <<>>
    /\ seen_pages = {}
    /\ seen_paginate = {}
    /\ soup = <<>>
    /\ found_any = FALSE
    /\ from_page = <<>>
    /\ ep_fetched = <<>>
    /\ hub_links = <<>>
    /\ ea_result = <<>>

\* python scrape_support.py
Init ==
    /\ Blank
    /\ entry = "main"
    /\ pc = "main"
    /\ category_url = ROOT
    /\ next_url = <<>>
    /\ article_url = ROOT
    /\ article_resp = Failed

\* extract_pages(category_url), called on its own
InitPages ==
    /\ Blank
    /\ entry = "extract_pages"
    /\ pc = "ep_loop"
    /\ category_url \in {CatDesign, CatMedia}
    /\ next_url = <<category_url>>
    /\ article_url = ROOT
    /\ article_resp = Failed

\* extract_anchors(article_url), called on its own
InitAnchors ==
    /\ Blank
    /\ entry = "extract_anchors"
    /\ pc = "ea_call"
    /\ category_url = ROOT
    /\ next_url = <<>>
    /\ article_url \in {ArtThemes, ArtPlugin}
    /\ article_resp \in ArticleResponses

\* hub_links is an observation for the properties below; no action reads it.
\* u lies below the category c: .../category/<c>/<more>/
IsSubcategoryOf(u, c) ==
    /\ u.root = c.root
    /\ ~u.query
    /\ u.frag = ""
    /\ Len(u.path) > Len(c.path)
    /\ SubSeq(u.path, 1, Len(c.path)) = c.path

\* The subcategories of c that doc links to (pagination links apart), in
\* document order.
SubcategoryLinks(doc, c) ==
    LET subs == SelectSeq(doc.links,
                          LAMBDA a : a.nav = "" /\ IsSubcategoryOf(StripFragment(a.href), c))
    IN Dedup([i \in 1..Len(subs) |-> StripFragment(subs[i].href)])

(***************************************************************************)
(* Actions                                                                 *)
(***************************************************************************)
\* An HTTP request (get) was issued.
Request == delayed' = FALSE

\* time.sleep(SLEEP)
Sleep == delayed' = TRUE

\* The locals of a finished extract_pages call are gone.
DropPagesFrame ==
    /\ pages' = <<>>
    /\ seen_pages' = {}
    /\ seen_paginate' = {}
    /\ next_url' = <<>>
    /\ soup' = <<>>
    /\ found_any' = FALSE
    /\ from_page' = <<>>
    /\ ep_fetched' = <<>>
    /\ hub_links' = <<>>

\* The per-category locals of build_manifest are dead until their next assignment.
DropCategoryLocals ==
    /\ section_title' = ""
    /\ page_urls' = <<>>
    /\ pi' = 1
    /\ bm_pages' = <<>>

\* The handler with a placeholder section added for the skipped category.
OnCategoryError_placeholder(secs, cat_url) ==
    Append(secs, [section |-> slug_to_title(cat_url), url |-> cat_url, pages |-> <<>>])

\* lines 205-207: except Exception: log(...); continue -- sections is untouched
OnCategoryError(secs, cat_url) == secs

\* lines 205-207, from wherever in the try body the exception came
SkipCategory ==
    /\ sections' = OnCategoryError(sections, cats[ci])
    /\ failed_cats' = failed_cats \cup {cats[ci]}
    /\ ci' = ci + 1
    /\ pc' = "cat_loop"
    /\ DropCategoryLocals
    /\ DropPagesFrame
    /\ category_url' = ROOT

\* lines 221, 182-184, 74-101: main calls build_manifest, which calls
\* extract_categories; an exception of get(GUIDES) leaves build_manifest and
\* the script
ExtractCategories ==
    /\ pc = "main"
    /\ \E resp \in GuidesResponses :
         LET r == extract_categories(resp)
         IN /\ guides_failed' = ~resp.ok
            /\ IF r.raised
               THEN pc' = "aborted" /\ cats' = cats
               ELSE pc' = "cat_loop" /\ cats' = r.value
    /\ Request
    /\ UNCHANGED <<entry, failed_cats, failed_arts, ci, section_title, sections,
                   page_urls, pi, bm_pages, manifest, file, category_url, pages,
                   seen_pages, seen_paginate, next_url, soup, found_any,
                   from_page, ep_fetched, hub_links, article_url, article_resp, ea_result>>

\* lines 184-190, 105-108: the next cat_url, the request for its page, its
\* title, and the call of extract_pages up to its loop
CategoryFetch ==
    /\ pc = "cat_loop"
    /\ ci <= Len(cats)
    /\ Request
    /\ \E resp \in CategoryResponses :
         IF ~resp.ok
         THEN SkipCategory
         ELSE /\ section_title' =
                    IF extract_title_from_soup(resp.doc) # ""
                    THEN extract_title_from_soup(resp.doc)
                    ELSE slug_to_title(cats[ci])
              /\ category_url' = cats[ci]
              /\ pages' = <<>>
              /\ seen_pages' = {}
              /\ seen_paginate' = {}
              /\ next_url' = <<cats[ci]>>
              /\ pc' = "ep_loop"
              /\ UNCHANGED <<failed_cats, ci, sections, page_urls, pi, bm_pages,
                             soup, found_any, from_page, ep_fetched, hub_links>>
    /\ UNCHANGED <<entry, guides_failed, failed_arts, cats, manifest, file,
                   article_url, article_resp, ea_result>>

\* lines 110-143: one pass of the loop of extract_pages up to the sleep; an
\* exception of get(next_url) leaves extract_pages
ListingFetch ==
    /\ pc = "ep_loop"
    /\ LoopCondition(next_url, seen_paginate)
    /\ Len(ep_fetched) < MaxFetches
    /\ Request
    /\ \E resp \in ServedListings(entry) :
         IF ~resp.ok
         THEN IF entry = "main"
              THEN SkipCategory
              ELSE /\ pc' = "ep_raised"
                   /\ seen_paginate' = seen_paginate \cup {next_url[1]}
                   /\ ep_fetched' = Append(ep_fetched, next_url[1])
                   /\ hub_links' = hub_links
                   /\ UNCHANGED <<failed_cats, ci, section_title, sections,
                                  page_urls, pi, bm_pages, category_url, pages,
                                  seen_pages, next_url, soup, found_any, from_page>>
         ELSE LET r == ScanListing(resp.doc, pages, seen_pages)
              IN /\ soup' = <<resp.doc>>
                 /\ seen_paginate' = seen_paginate \cup {next_url[1]}
                 /\ ep_fetched' = Append(ep_fetched, next_url[1])
                 /\ hub_links' = IF ep_fetched = <<>>
                                  THEN SubcategoryLinks(resp.doc, next_url[1])
                                  ELSE hub_links
                 /\ pages' = r.pages
                 /\ seen_pages' = r.seen_pages
                 /\ found_any' = r.found_any
                 /\ from_page' = SubSeq(r.pages, Len(pages) + 1, Len(r.pages))
                 /\ next_url' = NextLink(resp.doc)
                 /\ pc' = "ep_sleep"
                 /\ UNCHANGED <<failed_cats, ci, section_title, sections,
                                page_urls, pi, bm_pages, category_url>>
    /\ UNCHANGED <<entry, guides_failed, failed_arts, cats, manifest, file,
                   article_url, article_resp, ea_result>>

\* line 145: time.sleep(SLEEP), and back to the loop condition; soup and
\* found_any are not read again before lines 113 and 121 assign them
ListingSleep ==
    /\ pc = "ep_sleep"
    /\ Sleep
    /\ pc' = "ep_loop"
    /\ soup' = <<>>
    /\ found_any' = FALSE
    /\ from_page' = <<>>
    /\ UNCHANGED <<entry, guides_failed, failed_cats, failed_arts, cats, ci,
                   section_title, sections, page_urls, pi, bm_pages, manifest,
                   file, category_url, pages, seen_pages, seen_paginate, next_url,
                   ep_fetched, hub_links, article_url, article_resp, ea_result>>

\* lines 110, 147-148, 190-191: the loop condition fails, extract_pages
\* returns pages; build_manifest binds page_urls and starts its page loop
ListingReturn ==
    /\ pc = "ep_loop"
    /\ ~LoopCondition(next_url, seen_paginate)
    /\ IF entry = "main"
       THEN /\ page_urls' = pages
            /\ bm_pages' = <<>>
            /\ pi' = 1
            /\ pc' = "art_loop"
            /\ DropPagesFrame
            /\ category_url' = ROOT
       ELSE /\ pc' = "ep_returned"
            /\ UNCHANGED <<page_urls, bm_pages, pi, category_url, pages,
                           seen_pages, seen_paginate, next_url, soup, found_any,
                           from_page, ep_fetched, hub_links>>
    /\ UNCHANGED <<entry, delayed, guides_failed, failed_cats,
                   failed_arts, cats, ci, section_title, sections, manifest, file,
                   article_url, article_resp, ea_result>>

\* lines 193-196, 198-200: the next p, extract_anchors(p) and the append; an
\* exception of extract_anchors skips the page
ArticleFetch ==
    /\ pc = "art_loop"
    /\ pi <= Len(page_urls)
    /\ Request
    /\ \E resp \in CrawlArticleResponses :
         LET r == extract_anchors(page_urls[pi], resp)
         IN /\ failed_arts' = IF resp.ok THEN failed_arts
                              ELSE failed_arts \cup {<<cats[ci], page_urls[pi]>>}
            /\ IF r.raised
               THEN /\ pi' = pi + 1
                    /\ pc' = "art_loop"
                    /\ bm_pages' = bm_pages
               ELSE /\ bm_pages' = Append(bm_pages, [title |-> r.title,
                                                     url |-> page_urls[pi],
                                                     anchors |-> r.anchors])
                    /\ pi' = pi
                    /\ pc' = "art_sleep"
    /\ UNCHANGED <<entry, guides_failed, failed_cats, cats, ci, section_title,
                   sections, page_urls, manifest, file, category_url, pages,
                   seen_pages, seen_paginate, next_url, soup, found_any,
                   from_page, ep_fetched, hub_links, article_url, article_resp, ea_result>>

\* line 197: time.sleep(SLEEP), and on to the next p
ArticleSleep ==
    /\ pc = "art_sleep"
    /\ Sleep
    /\ pi' = pi + 1
    /\ pc' = "art_loop"
    /\ UNCHANGED <<entry, guides_failed, failed_cats, failed_arts, cats, ci,
                   section_title, sections, page_urls, bm_pages, manifest, file,
                   category_url, pages, seen_pages, seen_paginate, next_url, soup,
                   found_any, from_page, ep_fetched, hub_links, article_url, article_resp,
                   ea_result>>

\* lines 202-203: sections.append(...); time.sleep(SLEEP)
SectionAppend ==
    /\ pc = "art_loop"
    /\ pi > Len(page_urls)
    /\ sections' = Append(sections, [section |-> section_title,
                                     url |-> cats[ci],
                                     pages |-> bm_pages])
    /\ Sleep
    /\ ci' = ci + 1
    /\ pc' = "cat_loop"
    /\ DropCategoryLocals
    /\ UNCHANGED <<entry, guides_failed, failed_cats, failed_arts, cats, manifest,
                   file, category_url, pages, seen_pages, seen_paginate, next_url,
                   soup, found_any, from_page, ep_fetched, hub_links, article_url,
                   article_resp, ea_result>>

\* lines 209-214, 221: the loop over the categories is over, build_manifest
\* returns the manifest
BuildReturn ==
    /\ pc = "cat_loop"
    /\ ci > Len(cats)
    /\ manifest' = <<[version |-> "build-time", source |-> ROOT, sections |-> sections]>>
    /\ pc' = "built"
    /\ UNCHANGED <<entry, delayed, guides_failed, failed_cats,
                   failed_arts, cats, ci, section_title, sections, page_urls, pi,
                   bm_pages, file, category_url, pages, seen_pages, seen_paginate,
                   next_url, soup, found_any, from_page, ep_fetched, hub_links, article_url,
                   article_resp, ea_result>>

\* lines 222-224: open("support-links.json", "w") and json.dump(data, f)
WriteFile ==
    /\ pc = "built"
    /\ file' = manifest
    /\ pc' = "done"
    /\ UNCHANGED <<entry, delayed, guides_failed, failed_cats,
                   failed_arts, cats, ci, section_title, sections, page_urls, pi,
                   bm_pages, manifest, category_url, pages, seen_pages,
                   seen_paginate, next_url, soup, found_any, from_page,
                   ep_fetched, hub_links, article_url, article_resp, ea_result>>

\* lines 150-177: extract_anchors(article_url), called on its own
ExtractAnchorsCall ==
    /\ pc = "ea_call"
    /\ Request
    /\ ea_result' = <<extract_anchors(article_url, article_resp)>>
    /\ pc' = "ea_returned"
    /\ UNCHANGED <<entry, guides_failed, failed_cats, failed_arts, cats, ci,
                   section_title, sections, page_urls, pi, bm_pages, manifest,
                   file, category_url, pages, seen_pages, seen_paginate, next_url,
                   soup, found_any, from_page, ep_fetched, hub_links, article_url,
                   article_resp>>

(***************************************************************************)
(* Specifications                                                          *)
(***************************************************************************)
Next ==
    \/ ExtractCategories
    \/ CategoryFetch
    \/ ListingFetch
    \/ ListingSleep
    \/ ListingReturn
    \/ ArticleFetch
    \/ ArticleSleep
    \/ SectionAppend
    \/ BuildReturn
    \/ WriteFile

\* The whole script.
Spec == Init /\ [][Next]_vars

NextPages == ListingFetch \/ ListingSleep \/ ListingReturn

\* extract_pages on its own.
SpecPages == InitPages /\ [][NextPages]_vars

\* extract_pages on its own, and the interpreter keeps running it.
FairPages == SpecPages /\ WF_vars(NextPages)

NextAnchors == ExtractAnchorsCall

\* extract_anchors on its own.
SpecAnchors == InitAnchors /\ [][NextAnchors]_vars

\* The whole script, and the interpreter keeps running it.
FairSpec == Spec /\ WF_vars(Next)

(***************************************************************************)
(* Properties                                                              *)
(***************************************************************************)
\* The next step of the script issues an HTTP request.
AboutToRequest ==
    \/ pc = "main"
    \/ pc = "cat_loop" /\ ci <= Len(cats)
    \/ pc = "ep_loop" /\ LoopCondition(next_url, seen_paginate)
    \/ pc = "art_loop" /\ pi <= Len(page_urls)

Finished == pc \in {"done", "aborted"}

SectionUrls == [i \in 1..Len(sections) |-> sections[i].url]

PageUrls(ps) == [i \in 1..Len(ps) |-> ps[i].url]

\* C1: the categories handled so far that had no failed request are exactly
\* the sections, one each and in discovery order; a category with a failed
\* category-page or listing-page request has none; only a failed guides
\* request aborts; the returned manifest holds these sections; and the run
\* ends.
C1_CategoryFailureIsIsolated ==
    /\ [](/\ SectionUrls = SelectSeq(SubSeq(cats, 1, ci - 1),
                                     LAMBDA c : c \notin failed_cats)
          /\ (pc = "aborted" => guides_failed)
          /\ (manifest # <<>> => /\ ci = Len(cats) + 1
                                 /\ manifest[1].sections = sections))
    /\ <>Finished

\* C1 witness: of two categories the second failed and the first is the only section.
C1_Witness ==
    /\ pc = "done"
    /\ Len(cats) = 2
    /\ failed_cats = {cats[2]}
    /\ Len(file[1].sections) = 1
    /\ file[1].sections[1].url = cats[1]
    /\ Len(file[1].sections[1].pages) = 1
    /\ Len(file[1].sections[1].pages[1].anchors) = 1

\* ps holds the page of u with no anchors and the title made from its slug.
HasDegradedPage(ps, u) ==
    \E i \in 1..Len(ps) :
        /\ ps[i].url = u
        /\ ps[i].anchors = <<>>
        /\ ps[i].title = slug_to_title(u)

\* C2: an article whose request failed is in the pages of its category, with
\* no anchors and the slug-derived title; the pages built so far are the
\* articles of the listing in listing order, none left out; and once the
\* category is done its section holds the page.
C2_ArticleFailureDegrades ==
    /\ pc \in {"art_loop", "art_sleep"} =>
          /\ PageUrls(bm_pages) = SubSeq(page_urls, 1, Len(bm_pages))
          /\ Len(bm_pages) = IF pc = "art_sleep" THEN pi ELSE pi - 1
    /\ \A fa \in failed_arts :
          IF pc \in {"art_loop", "art_sleep"} /\ cats[ci] = fa[1]
          THEN HasDegradedPage(bm_pages, fa[2])
          ELSE \E i \in 1..Len(sections) :
                  /\ sections[i].url = fa[1]
                  /\ HasDegradedPage(sections[i].pages, fa[2])

\* C2 witness: a section of two pages, the first from a failed request, the
\* second with an anchor.
C2_Witness ==
    /\ pc = "done"
    /\ \E i \in 1..Len(sections) :
          /\ Len(sections[i].pages) = 2
          /\ <<sections[i].url, sections[i].pages[1].url>> \in failed_arts
          /\ sections[i].pages[1].anchors = <<>>
          /\ sections[i].pages[2].anchors # <<>>

\* C3: after a failed guides request there is no manifest, the output file
\* was never opened, nothing was collected and no further request is made.
C3_GuidesFailureAborts ==
    guides_failed =>
        /\ pc = "aborted"
        /\ manifest = <<>>
        /\ file = <<>>
        /\ sections = <<>>
        /\ ~AboutToRequest

\* C3 witness: the guides request failed and the script is over.
C3_Witness == guides_failed /\ pc = "aborted" /\ ~delayed

\* The hrefs of doc marked as pagination links.
PaginationTargets(doc) ==
    {doc.links[i].href : i \in {k \in 1..Len(doc.links) : doc.links[k].nav # ""}}

\* The hrefs of doc, cut at "#".
LinkedUrls(doc) == {StripFragment(doc.links[i].href) : i \in 1..Len(doc.links)}

TitleAnchors(doc) ==
    SelectSeq(doc.links, LAMBDA a : a.where \in {"entry-title", "article-entry-title", "card"})

\* What Tier 1 yields for the page: the hrefs of the article-title anchors
\* that classify as article URLs.
Tier1Yield(doc) ==
    SelectSeq([i \in 1..Len(TitleAnchors(doc)) |-> StripFragment(TitleAnchors(doc)[i].href)],
              LAMBDA u : u.root = WP /\ Len(u.path) >= 1 /\ ~ReservedPrefix(u) /\ ~u.query)

\* C5, as claimed: for the listing page just processed, the Tier 2 scan ran
\* (found_any is false at line 130) exactly if Tier 1 yields nothing for it.
C5_Tier2IffTier1Empty ==
    pc = "ep_sleep" => (~found_any <=> Tier1Yield(soup[1]) = <<>>)

\* The anchors the tier in effect read: the article-title anchors when Tier 1
\* found something, all anchors otherwise.
AnchorsRead == IF found_any THEN TitleAnchors(soup[1]) ELSE soup[1].links

\* The position among the anchors read at which u first occurs.
FirstOccurrence(u) ==
    CHOOSE k \in 1..Len(AnchorsRead) :
        /\ StripFragment(AnchorsRead[k].href) = u
        /\ \A j \in 1..(k - 1) : StripFragment(AnchorsRead[j].href) # u

\* C8, as claimed: the article URLs collected from the listing page just
\* processed are in the order of their first occurrence in the document.
C8_CollectedInDomOrder ==
    pc = "ep_sleep" =>
        \A i, j \in 1..Len(from_page) :
            i < j => FirstOccurrence(from_page[i]) < FirstOccurrence(from_page[j])

\* C10: extract_pages ends, by returning or by raising, and requests no URL twice.
C10_TerminatesAndFetchesOnce ==
    /\ <>(pc \in {"ep_returned", "ep_raised"})
    /\ [](IsInjective(ep_fetched))

\* C10 witness: the call returned because the "next" link led back to a page
\* already requested, after more than one page.
C10_Witness ==
    /\ pc = "ep_returned"
    /\ Len(ep_fetched) >= 2
    /\ next_url # <<>>
    /\ next_url[1] \in Range(ep_fetched)

\* The category URL grammar: absolute, under <root>/category/, one or more
\* slug components after it, no query string, no fragment.
MatchesCategoryGrammar(u) ==
    /\ u.root = WP
    /\ Len(u.path) >= 2
    /\ u.path[1] = "category"
    /\ ~u.query
    /\ u.frag = ""

\* The article URL grammar: absolute, under <root>/, not under a reserved
\* prefix, no query string, no fragment.
MatchesArticleGrammar(u) ==
    /\ u.root = WP
    /\ Len(u.path) >= 1
    /\ ~(u.path[1] \in SlashReserved /\ (Len(u.path) >= 2 \/ u.slash))
    /\ u.path[1] \notin BareReserved
    /\ ~u.query
    /\ u.frag = ""

SectionsWellFormed(secs) ==
    \A i \in 1..Len(secs) :
        /\ MatchesCategoryGrammar(secs[i].url)
        /\ \A j \in 1..Len(secs[i].pages) : MatchesArticleGrammar(secs[i].pages[j].url)

\* C6: every section url of the sections built, of the manifest returned and
\* of the file written matches the category grammar, and every page url the
\* article grammar.
C6_ManifestUrlsMatchGrammar ==
    /\ SectionsWellFormed(sections)
    /\ \A i \in 1..Len(bm_pages) : MatchesArticleGrammar(bm_pages[i].url)
    /\ manifest # <<>> => SectionsWellFormed(manifest[1].sections)
    /\ file # <<>> => SectionsWellFormed(file[1].sections)

\* C6 witness: the crawl holds a section with a page, and the listing page
\* just read, which gave an article, also carries a link that is no article URL.
C6_Witness ==
    /\ entry = "main"
    /\ pc = "ep_sleep"
    /\ \E i \in 1..Len(sections) : sections[i].pages # <<>>
    /\ from_page # <<>>
    /\ \E k \in 1..Len(soup[1].links) :
          ~MatchesArticleGrammar(StripFragment(soup[1].links[k].href))

\* C7, as claimed: when a request is about to be issued and it is not the
\* first of the run, time.sleep(SLEEP) has run since the request before it.
C7_DelayBetweenRequests ==
    (AboutToRequest /\ pc # "main") => delayed

\* The heading at position k of the article is of level 2-4 and has a non-empty id.
Qualifies(hs, k) == hs[k].level \in {2, 3, 4} /\ hs[k].has_id /\ hs[k].id # ""

\* C9: the returned anchors have pairwise different urls, and each comes from
\* the first heading of level 2-4 with its (non-empty) id, in document order.
C9_AnchorsUniqueFromHeadingsWithId ==
    (pc = "ea_returned" /\ article_resp.ok) =>
        LET as == ea_result[1].anchors
            hs == article_resp.doc.headings
        IN /\ \A i, j \in 1..Len(as) : as[i].url = as[j].url => i = j
           /\ \E f \in [1..Len(as) -> 1..Len(hs)] :
                 /\ \A i \in 1..Len(as) :
                       /\ Qualifies(hs, f[i])
                       /\ as[i].url = [article_url EXCEPT !.frag = hs[f[i]].id]
                       /\ \A k \in 1..(f[i] - 1) :
                             ~(Qualifies(hs, k) /\ hs[k].id = hs[f[i]].id)
                 /\ \A i, j \in 1..Len(as) : i < j => f[i] < f[j]

\* C9 witness: two headings of level 2-4 carry the same id and one anchor is returned.
C9_Witness ==
    /\ pc = "ea_returned"
    /\ article_resp.ok
    /\ Len(article_resp.doc.headings) = 2
    /\ Qualifies(article_resp.doc.headings, 1)
    /\ Qualifies(article_resp.doc.headings, 2)
    /\ article_resp.doc.headings[1].id = article_resp.doc.headings[2].id
    /\ Len(ea_result[1].anchors) = 1

====
